---- MODULE Spec2Model ----
(***************************************************************************)
(* The slotted heap page of MiniBase (HeapPage/spacemgr/heappage.cpp).     *)
(*                                                                         *)
(* A page is a slot directory slots[] that grows forward and a data array  *)
(* data[] that is filled from its high end downward.  The header fields    *)
(* numOfSlots, fillPtr and freeSpace describe both.                        *)
(*                                                                         *)
(* Memory.  The code indexes slots[] and data[] without range checks, so   *)
(* the model keeps the cells next to the arrays as well: slots[-1] is the  *)
(* cell in front of the directory, data[-1] the byte in front of the data  *)
(* array and data[HEAPPAGE_DATA_SIZE ..] the bytes behind it.  What these  *)
(* cells hold before the page first writes them is arbitrary, and so is    *)
(* the content of slots[] and data[] themselves, which Init never clears:  *)
(* the directory starts with either of two contents (GarbageSlots), the    *)
(* bytes start as Unwritten, and InitCall on a used page leaves whatever   *)
(* the earlier calls have written.                                         *)
(***************************************************************************)
EXTENDS Integers, Sequences, FiniteSets

\* ------------------------------------------------------------- sizes
\* Size of the data array (scaled down).
HEAPPAGE_DATA_SIZE == 5
\* sizeof(Slot) (scaled down).
SlotSize == 1
\* Longest record a caller inserts.
MaxLen == 2
\* Number of calls that change the page which the model follows.
MaxCalls == 4

\* Byte values of the records the callers insert.
Bytes == {1, 2}
\* The value that stands for a byte of memory nothing has been copied to yet.
Unwritten == CHOOSE b \in 0..2 : b \notin Bytes
\* The page id given to Init, and the id of some other page.
PageIDs == {1}
ForeignPage == 2

\* Cells of the slot directory the model keeps: slots[-1] .. slots[MaxSlots-1].
\* Every call appends one slot at most.
MaxSlots == MaxCalls + 1
SlotIdx == -1 .. (MaxSlots - 1)
\* Bytes the model keeps: data[-1] .. data[DataHi].  A call moves a record by
\* MaxLen bytes at most and copies MaxLen bytes at most, so no call reaches
\* further.
DataHi == HEAPPAGE_DATA_SIZE + MaxLen * (MaxCalls + 1)
Window == -1 .. DataHi

\* What a slot cell may hold before the page writes it.
GarbageSlots == {[offset |-> -1, length |-> 0], [offset |-> 0, length |-> 1]}

\* Record contents and RecordIDs the callers use.
Records == {[k \in 1..n |-> b] : n \in 0..MaxLen, b \in Bytes}
RecordIDs ==
  [pageNo : PageIDs, slotNo : SlotIdx] \cup {[pageNo |-> ForeignPage, slotNo |-> 0]}
NoRid == [pageNo |-> 0, slotNo |-> 0]

VARIABLES
  pid,          \* page id
  numOfSlots,   \* number of directory entries in use
  fillPtr,      \* bytes used at the high end of data[]
  freeSpace,    \* the free-space counter
  slots,        \* the slot directory, with the cell in front of it
  data,         \* the data array, with the bytes around it
  call,         \* the call made last: the operation and its status
  deleted,      \* slots of the directory deleted since Init/CompactSlotDir
  kinds,        \* kinds of calls that have changed the page since Init
  ncalls        \* number of calls so far that were not refused

vars == <<pid, numOfSlots, fillPtr, freeSpace, slots, data, call, deleted, kinds, ncalls>>

\* The page object as one value.
Page ==
  [pid |-> pid, numOfSlots |-> numOfSlots, fillPtr |-> fillPtr,
   freeSpace |-> freeSpace, slots |-> slots, data |-> data]

\* memcpy(&d[dst], &d[src], n) on the kept bytes.
Memcpy(d, dst, src, n) ==
  [k \in Window |-> IF dst <= k /\ k < dst + n THEN d[src + (k - dst)] ELSE d[k]]

\* memcpy(&d[dst], recPtr, length).
MemcpyIn(d, dst, recPtr, length) ==
  [k \in Window |-> IF dst <= k /\ k < dst + length THEN recPtr[k - dst + 1] ELSE d[k]]

\* ------------------------------------------------------------- Init
InitPage(p, pageNo) ==
  [p EXCEPT !.pid = pageNo, !.numOfSlots = 0, !.fillPtr = 0,
            !.freeSpace = HEAPPAGE_DATA_SIZE]

\* InsertRecordPage placing the record at the old fill pointer (line 84 with
\* the fillPtr before line 78).
InsertRecordPage_OldFillOffset(p, recPtr, length) ==
  LET newFill == p.fillPtr + length
      offset  == HEAPPAGE_DATA_SIZE - p.fillPtr
  IN  [p EXCEPT !.fillPtr = newFill,
                !.freeSpace = p.freeSpace - length - SlotSize,
                !.slots[p.numOfSlots] = [offset |-> offset, length |-> length],
                !.numOfSlots = p.numOfSlots + 1,
                !.data = MemcpyIn(p.data, offset, recPtr, length)]

\* ------------------------------------------------------------- InsertRecord
\* InsertRecordPage without the charge for the new slot (line 81 left out).
InsertRecordPage_NoSlotCharge(p, recPtr, length) ==
  LET newFill == p.fillPtr + length
      offset  == HEAPPAGE_DATA_SIZE - newFill
  IN  [p EXCEPT !.fillPtr = newFill,
                !.freeSpace = p.freeSpace - length,
                !.slots[p.numOfSlots] = [offset |-> offset, length |-> length],
                !.numOfSlots = p.numOfSlots + 1,
                !.data = MemcpyIn(p.data, offset, recPtr, length)]

\* InsertRecordPage copying one byte too few (line 90 with length - 1).
InsertRecordPage_ShortCopy(p, recPtr, length) ==
  LET newFill == p.fillPtr + length
      offset  == HEAPPAGE_DATA_SIZE - newFill
  IN  [p EXCEPT !.fillPtr = newFill,
                !.freeSpace = p.freeSpace - length - SlotSize,
                !.slots[p.numOfSlots] = [offset |-> offset, length |-> length],
                !.numOfSlots = p.numOfSlots + 1,
                !.data = MemcpyIn(p.data, offset, recPtr, length - 1)]

\* The page after a successful insert (lines 77-90).
InsertRecordPage(p, recPtr, length) ==
  LET newFill == p.fillPtr + length
      offset  == HEAPPAGE_DATA_SIZE - newFill
  IN  [p EXCEPT !.fillPtr = newFill,
                !.freeSpace = p.freeSpace - length - SlotSize,
                !.slots[p.numOfSlots] = [offset |-> offset, length |-> length],
                !.numOfSlots = p.numOfSlots + 1,
                !.data = MemcpyIn(p.data, offset, recPtr, length)]

\* The space check asking for the room of the slot as well.
InsertRefused_CountsSlot(p, length) == p.freeSpace < length + SlotSize

\* The space check of InsertRecord (line 72).
InsertRefused(p, length) == p.freeSpace < length

\* InsertRecord(recPtr, length, rid): status, the page afterwards, rid.
InsertRecord(p, recPtr, length) ==
  IF InsertRefused(p, length)
    THEN [status |-> "DONE", page |-> p, rid |-> NoRid]
    ELSE [status |-> "OK", page |-> InsertRecordPage(p, recPtr, length),
          rid |-> [pageNo |-> p.pid, slotNo |-> p.numOfSlots]]

\* ------------------------------------------------------------- DeleteRecord
\* The loop of lines 128-132, from slot i on: every later slot is moved by
\* rlength, rlength bytes of it are copied.
RECURSIVE ShiftLoop(_, _, _)
ShiftLoop(p, i, rlength) ==
  IF i < p.numOfSlots
    THEN LET o == p.slots[i].offset
         IN  ShiftLoop([p EXCEPT !.data = Memcpy(p.data, o + rlength, o, rlength),
                                 !.slots[i].offset = o + rlength],
                       i + 1, rlength)
    ELSE p

\* DeleteRecordPage giving back the slot header as well (line 125 with
\* rlength + sizeof(Slot)).
DeleteRecordPage_ReturnsSlot(p, slotNo) ==
  LET rlength == p.slots[slotNo].length
      q == [p EXCEPT !.slots[slotNo].offset = -1,
                     !.freeSpace = p.freeSpace + rlength + SlotSize,
                     !.fillPtr = p.fillPtr - rlength]
  IN  ShiftLoop(q, slotNo + 1, rlength)

\* DeleteRecordPage taking the slot out of the directory: the later slots move
\* down by one and numOfSlots drops (in place of line 123).
DeleteRecordPage_RemovesSlot(p, slotNo) ==
  LET rlength == p.slots[slotNo].length
      q == [p EXCEPT !.slots[slotNo].offset = -1,
                     !.freeSpace = p.freeSpace + rlength,
                     !.fillPtr = p.fillPtr - rlength]
      s == ShiftLoop(q, slotNo + 1, rlength)
  IN  IF slotNo >= 0 /\ slotNo < p.numOfSlots
        THEN [s EXCEPT !.slots = [i \in SlotIdx |->
                                    IF i >= slotNo /\ i + 1 < p.numOfSlots
                                      THEN s.slots[i + 1]
                                      ELSE s.slots[i]],
                       !.numOfSlots = p.numOfSlots - 1]
        ELSE s

\* The page after a delete that passed the checks (lines 120-132).
DeleteRecordPage(p, slotNo) ==
  LET rlength == p.slots[slotNo].length
      q == [p EXCEPT !.slots[slotNo].offset = -1,
                     !.freeSpace = p.freeSpace + rlength,
                     !.fillPtr = p.fillPtr - rlength]
  IN  ShiftLoop(q, slotNo + 1, rlength)

\* The checks of DeleteRecord (lines 109-118).
DeleteRefused(p, rid) ==
  \/ rid.pageNo # p.pid
  \/ p.slots[rid.slotNo].offset = -1

\* DeleteRecord(rid): status and the page afterwards.
DeleteRecord(p, rid) ==
  IF DeleteRefused(p, rid)
    THEN [status |-> "FAIL", page |-> p]
    ELSE [status |-> "OK", page |-> DeleteRecordPage(p, rid.slotNo)]

\* ------------------------------------------------------------- scans
\* The loop of FirstRecord and NextRecord: the first slot from `i` on whose
\* offset is not -1, or numOfSlots when there is none.
RECURSIVE FindFrom(_, _)
FindFrom(p, i) ==
  IF i < p.numOfSlots
    THEN IF p.slots[i].offset # -1 THEN i ELSE FindFrom(p, i + 1)
    ELSE p.numOfSlots

FirstRecord(p) ==
  IF p.numOfSlots = 0
    THEN [status |-> "DONE", rid |-> NoRid]
    ELSE LET first == FindFrom(p, 0)
         IN  IF first < p.numOfSlots
               THEN [status |-> "OK", rid |-> [pageNo |-> p.pid, slotNo |-> first]]
               ELSE [status |-> "DONE", rid |-> NoRid]

\* NextRecord that starts at the current slot instead of the one after it.
NextRecord_NoAdvance(p, curRid) ==
  IF curRid.pageNo # p.pid
    THEN [status |-> "DONE", rid |-> NoRid]
    ELSE LET next == FindFrom(p, curRid.slotNo)
         IN  IF next < p.numOfSlots
               THEN [status |-> "OK", rid |-> [pageNo |-> p.pid, slotNo |-> next]]
               ELSE [status |-> "DONE", rid |-> NoRid]

NextRecord(p, curRid) ==
  IF curRid.pageNo # p.pid
    THEN [status |-> "DONE", rid |-> NoRid]
    ELSE LET next == FindFrom(p, curRid.slotNo + 1)
         IN  IF next < p.numOfSlots
               THEN [status |-> "OK", rid |-> [pageNo |-> p.pid, slotNo |-> next]]
               ELSE [status |-> "DONE", rid |-> NoRid]

\* ------------------------------------------------------------- reads
\* The checks of GetRecord and ReturnRecord (lines 216-225, 245-254).
RecordRefused(p, rid) ==
  \/ rid.pageNo # p.pid
  \/ rid.slotNo >= p.numOfSlots
  \/ p.slots[rid.slotNo].offset = -1

\* The bytes data[offset .. offset + length - 1].
BytesAt(d, offset, length) == [k \in 1..length |-> d[offset + k - 1]]

\* GetRecord(rid, recPtr, length): status, length and the copy.
GetRecord(p, rid) ==
  IF RecordRefused(p, rid)
    THEN [status |-> "FAIL", length |-> 0, bytes |-> <<>>]
    ELSE LET s == p.slots[rid.slotNo]
         IN  [status |-> "OK", length |-> s.length,
              bytes |-> BytesAt(p.data, s.offset, s.length)]

\* ReturnRecord(rid, recPtr, length): status, length and the pointer
\* &data[offset], as an index of data[].
ReturnRecord(p, rid) ==
  IF RecordRefused(p, rid)
    THEN [status |-> "FAIL", length |-> 0, recPtr |-> 0]
    ELSE LET s == p.slots[rid.slotNo]
         IN  [status |-> "OK", length |-> s.length, recPtr |-> s.offset]

AvailableSpace(p) == p.freeSpace

\* The loop of GetNumOfRecords from slot i on, toReturn so far.
RECURSIVE CountLoop(_, _, _)
CountLoop(p, i, toReturn) ==
  IF i < p.numOfSlots
    THEN CountLoop(p, i + 1,
                   IF p.slots[i].offset = -1 THEN toReturn - 1 ELSE toReturn)
    ELSE toReturn

GetNumOfRecords(p) == CountLoop(p, 0, p.numOfSlots)

\* IsEmpty looking at numOfSlots only (the loop of lines 293-299 left out).
IsEmpty_NoLoop(p) == p.numOfSlots = 0

IsEmpty(p) ==
  IF p.numOfSlots = 0 THEN TRUE ELSE FindFrom(p, 0) >= p.numOfSlots

\* ------------------------------------------------------------- CompactSlotDir
\* The first loop (lines 307-310).  It reads slots[end] before it tests that
\* end is a slot of the page; when every slot is deleted it goes on below 0.
\* The model follows it to slots[-1]; whatever it finds further down, it ends
\* with end < 0 and the second loop does nothing.
RECURSIVE SkipDeletedTail(_, _)
SkipDeletedTail(p, end) ==
  IF end >= -1 /\ end < p.numOfSlots /\ p.slots[end].offset = -1
    THEN SkipDeletedTail(p, end - 1)
    ELSE end

\* The second loop (lines 311-331): the directory and `start` when it ends.
RECURSIVE CompactLoop(_, _, _)
CompactLoop(s, start, end) ==
  IF start < end
    THEN IF s[start].offset # -1
           THEN CompactLoop(s, start + 1, end)
           ELSE IF s[end].offset = -1
                  THEN CompactLoop(s, start, end - 1)
                  ELSE CompactLoop([s EXCEPT ![start] = s[end]], start + 1, end - 1)
    ELSE [slots |-> s, start |-> start]

CompactSlotDir(p) ==
  LET end == SkipDeletedTail(p, p.numOfSlots - 1)
      r   == CompactLoop(p.slots, 0, end)
  IN  [p EXCEPT !.slots = r.slots,
                !.freeSpace = p.freeSpace + SlotSize * (p.numOfSlots - r.start),
                !.numOfSlots = r.start]

\* The slot indices the first loop reads (lines 307-310), as far as the model
\* follows it: slots[end] is read whenever end < numOfSlots.
RECURSIVE SkipDeletedTailReads(_, _)
SkipDeletedTailReads(p, end) ==
  IF end >= -1 /\ end < p.numOfSlots
    THEN {end} \cup (IF p.slots[end].offset = -1
                       THEN SkipDeletedTailReads(p, end - 1)
                       ELSE {})
    ELSE {}

\* The slot indices the second loop reads or writes (lines 311-331).
RECURSIVE CompactLoopTouches(_, _, _)
CompactLoopTouches(s, start, end) ==
  IF start < end
    THEN IF s[start].offset # -1
           THEN {start} \cup CompactLoopTouches(s, start + 1, end)
           ELSE IF s[end].offset = -1
                  THEN {start, end} \cup CompactLoopTouches(s, start, end - 1)
                  ELSE {start, end} \cup
                         CompactLoopTouches([s EXCEPT ![start] = s[end]],
                                            start + 1, end - 1)
    ELSE {}

\* The slot indices a call of CompactSlotDir reads or writes.
CompactSlotDirTouches(p) ==
  SkipDeletedTailReads(p, p.numOfSlots - 1) \cup
    CompactLoopTouches(p.slots, 0, SkipDeletedTail(p, p.numOfSlots - 1))

\* ------------------------------------------------------------- the calls
\* The record of a call: the operation and its status.
CallRecord(op, status) == [op |-> op, status |-> status]

\* rid names a slot of the directory in use.
InRange(p, rid) == rid.slotNo >= 0 /\ rid.slotNo < p.numOfSlots

SetPage(q) ==
  /\ pid' = q.pid
  /\ numOfSlots' = q.numOfSlots
  /\ fillPtr' = q.fillPtr
  /\ freeSpace' = q.freeSpace
  /\ slots' = q.slots
  /\ data' = q.data

Init ==
  /\ pid \in PageIDs
  /\ numOfSlots = 0
  /\ fillPtr = 0
  /\ freeSpace = HEAPPAGE_DATA_SIZE
  /\ \E g \in GarbageSlots : slots = [i \in SlotIdx |-> g]
  /\ data = [k \in Window |-> Unwritten]
  /\ call = CallRecord("Init", "OK")
  /\ deleted = {}
  /\ kinds = {}
  /\ ncalls = 0

InitCall(pageNo) ==
  /\ ncalls < MaxCalls
  /\ ncalls' = ncalls + 1
  /\ SetPage(InitPage(Page, pageNo))
  /\ call' = CallRecord("Init", "OK")
  /\ deleted' = {}
  /\ kinds' = {}

InsertRecordCall(recPtr) ==
  LET r == InsertRecord(Page, recPtr, Len(recPtr))
  IN  /\ r.status = "OK" => ncalls < MaxCalls
      /\ ncalls' = (IF r.status = "OK" THEN ncalls + 1 ELSE ncalls)
      /\ call' = CallRecord("InsertRecord", r.status)
      /\ SetPage(r.page)
      /\ kinds' = (IF r.status = "OK" THEN kinds \cup {"InsertRecord"} ELSE kinds)
      /\ UNCHANGED deleted

DeleteRecordCall(rid) ==
  LET r == DeleteRecord(Page, rid)
  IN  /\ r.status = "OK" => ncalls < MaxCalls
      /\ ncalls' = (IF r.status = "OK" THEN ncalls + 1 ELSE ncalls)
      /\ call' = CallRecord("DeleteRecord", r.status)
      /\ SetPage(r.page)
      /\ deleted' = (IF r.status = "OK" /\ InRange(Page, rid)
                       THEN deleted \cup {rid.slotNo}
                       ELSE deleted)
      /\ kinds' = (IF r.status # "OK" THEN kinds
                   ELSE IF InRange(Page, rid) THEN kinds \cup {"DeleteRecord"}
                   ELSE kinds \cup {"DeleteRecordOutOfRange"})

CompactSlotDirCall ==
  /\ ncalls < MaxCalls
  /\ ncalls' = ncalls + 1
  /\ SetPage(CompactSlotDir(Page))
  /\ call' = CallRecord("CompactSlotDir", "OK")
  /\ deleted' = {}
  /\ kinds' = kinds \cup {"CompactSlotDir"}

Next ==
  \/ \E pageNo \in PageIDs : InitCall(pageNo)
  \/ \E recPtr \in Records : InsertRecordCall(recPtr)
  \/ \E rid \in RecordIDs : DeleteRecordCall(rid)
  \/ CompactSlotDirCall

Spec == Init /\ [][Next]_vars

\* ------------------------------------------------------------- notions of the specification
\* The RecordID of slot k of this page.
Rid(k) == [pageNo |-> pid, slotNo |-> k]

\* A valid RecordID: this page, a slot of the directory, not deleted.
ValidRid(p, rid) ==
  /\ rid.pageNo = p.pid
  /\ rid.slotNo >= 0
  /\ rid.slotNo < p.numOfSlots
  /\ p.slots[rid.slotNo].offset # -1

\* The slots of the directory that are not deleted.
LiveSlots(p) == {k \in 0 .. (p.numOfSlots - 1) : p.slots[k].offset # -1}

\* The members of a set of numbers in increasing order.
RECURSIVE Ascending(_)
Ascending(S) ==
  IF S = {} THEN <<>>
  ELSE LET m == CHOOSE x \in S : \A y \in S : x <= y
       IN  <<m>> \o Ascending(S \ {m})

\* The scan a caller makes: FirstRecord, then NextRecord on the RecordID
\* returned last, for at most `fuel` calls of NextRecord.  seq: the slot
\* numbers returned; done: the scan ended with DONE.
RECURSIVE ScanFrom(_, _, _)
ScanFrom(p, r, fuel) ==
  IF r.status # "OK" THEN [seq |-> <<>>, done |-> TRUE]
  ELSE IF fuel = 0 THEN [seq |-> <<r.rid.slotNo>>, done |-> FALSE]
  ELSE LET rest == ScanFrom(p, NextRecord(p, r.rid), fuel - 1)
       IN  [seq |-> <<r.rid.slotNo>> \o rest.seq, done |-> rest.done]

Scan(p) == ScanFrom(p, FirstRecord(p), MaxSlots)

\* Every byte string a record of the page may hold.
AnyRecords == UNION {[1..n -> Bytes \cup {Unwritten}] : n \in 0..MaxLen}

\* How often each byte string is returned by GetRecord over a scan.
ScannedRecords(p) ==
  LET sc == Scan(p).seq
  IN  [v \in AnyRecords |->
         Cardinality({j \in 1..Len(sc) :
            GetRecord(p, [pageNo |-> p.pid, slotNo |-> sc[j]]).bytes = v})]

\* ------------------------------------------------------------- longer runs of valid calls
\* A caller that passes valid arguments only: InsertRecord, DeleteRecord on
\* RecordIDs that name a live slot of this page, and CompactSlotDir.  These
\* runs are followed for MaxSteps calls, as long as the page stays within the
\* cells the model keeps.
MaxSteps == 8

\* An insert that writes kept cells only.
InsertKept(p) ==
  /\ p.numOfSlots < MaxSlots
  /\ HEAPPAGE_DATA_SIZE - p.fillPtr - 1 <= DataHi

\* A delete whose shift loop moves the later records within the kept bytes.
DeleteKept(p, slotNo) ==
  \A j \in (slotNo + 1) .. (p.numOfSlots - 1) :
    p.slots[j].offset + p.slots[slotNo].length + MaxLen - 1 <= DataHi

\* The shift loop of this delete brings a deleted slot back: it adds rlength
\* to the offset -1 of a deleted slot behind slotNo (lines 128-132).
Revives(p, slotNo) ==
  /\ p.slots[slotNo].length > 0
  /\ \E j \in (slotNo + 1) .. (p.numOfSlots - 1) : p.slots[j].offset = -1

InsertRecordStep(recPtr) ==
  LET r == InsertRecord(Page, recPtr, Len(recPtr))
  IN  /\ InsertKept(Page)
      /\ r.status = "OK" => ncalls < MaxSteps
      /\ ncalls' = (IF r.status = "OK" THEN ncalls + 1 ELSE ncalls)
      /\ call' = CallRecord("InsertRecord", r.status)
      /\ SetPage(r.page)
      /\ kinds' = (IF r.status = "OK" THEN kinds \cup {"InsertRecord"} ELSE kinds)
      /\ UNCHANGED deleted

DeleteRecordStep(rid) ==
  LET r == DeleteRecord(Page, rid)
  IN  /\ ValidRid(Page, rid)
      /\ DeleteKept(Page, rid.slotNo)
      /\ ncalls < MaxSteps
      /\ ncalls' = ncalls + 1
      /\ call' = CallRecord("DeleteRecord", r.status)
      /\ SetPage(r.page)
      /\ deleted' = deleted \cup {rid.slotNo}
      /\ kinds' = kinds \cup {IF Revives(Page, rid.slotNo)
                                THEN "DeleteRecordRevives"
                                ELSE "DeleteRecord"}

CompactSlotDirStep ==
  /\ ncalls < MaxSteps
  /\ ncalls' = ncalls + 1
  /\ call' = CallRecord("CompactSlotDir", "OK")
  /\ SetPage(CompactSlotDir(Page))
  /\ deleted' = {}
  /\ kinds' = kinds \cup {"CompactSlotDir"}

NextValid ==
  \/ \E recPtr \in Records : InsertRecordStep(recPtr)
  \/ \E rid \in RecordIDs : DeleteRecordStep(rid)
  \/ CompactSlotDirStep

SpecValid == Init /\ [][NextValid]_vars

\* ------------------------------------------------------------- claims

\* C1: in every reachable state
\* freeSpace = HEAPPAGE_DATA_SIZE - fillPtr - numOfSlots * sizeof(Slot).
C1_FreeSpaceAccounting ==
  freeSpace = HEAPPAGE_DATA_SIZE - fillPtr - numOfSlots * SlotSize

\* C1 witness: inserts, a delete and a compaction have acted and the page
\* still holds a record.
C1_Witness ==
  /\ {"InsertRecord", "DeleteRecord", "CompactSlotDir"} \subseteq kinds
  /\ "DeleteRecordOutOfRange" \notin kinds
  /\ numOfSlots >= 1
  /\ fillPtr >= 1

\* C2 (as claimed): a successful DeleteRecord(rid) of a valid rid leaves every
\* other live RecordID retrievable with the length and the bytes it had.
C2_IndexStability ==
  [][\A rid \in RecordIDs :
       (call'.op = "DeleteRecord" /\ ValidRid(Page, rid) /\ DeleteRecordCall(rid)) =>
         \A k \in LiveSlots(Page) \ {rid.slotNo} :
           GetRecord(Page', Rid(k)) = GetRecord(Page, Rid(k))]_vars

\* C3 (as claimed): a slot deleted by DeleteRecord stays deleted through
\* inserts and deletes of other RecordIDs of the directory: GetRecord and
\* DeleteRecord on it fail until CompactSlotDir or Init.
C3_DeletedStaysDeleted ==
  "DeleteRecordOutOfRange" \notin kinds =>
     \A k \in deleted :
        /\ GetRecord(Page, Rid(k)).status = "FAIL"
        /\ DeleteRecord(Page, Rid(k)).status = "FAIL"

\* C4 (as claimed): after CompactSlotDir numOfSlots is the number of slots that
\* were not deleted before it, and no slot of the new directory is deleted.
C4_CompactCountsLive ==
  [][(call'.op = "CompactSlotDir" /\ CompactSlotDirCall) =>
       /\ numOfSlots' = Cardinality(LiveSlots(Page))
       /\ \A i \in 0 .. (numOfSlots' - 1) : slots'[i].offset # -1]_vars

\* C5 (as claimed): CompactSlotDir loses no record: a scan returns the same
\* records, each as often as before, and GetNumOfRecords is unchanged.
C5_CompactKeepsRecords ==
  [][(call'.op = "CompactSlotDir" /\ CompactSlotDirCall) =>
       /\ ScannedRecords(Page') = ScannedRecords(Page)
       /\ GetNumOfRecords(Page') = GetNumOfRecords(Page)]_vars

\* C6: a successful InsertRecord returns rid = {pid, numOfSlots before the
\* call}, and GetRecord(rid) right after it returns OK, the inserted length and
\* the inserted bytes.
C6_InsertThenGet ==
  [][\A recPtr \in Records :
       (call' = CallRecord("InsertRecord", "OK") /\ InsertRecordCall(recPtr)) =>
         LET r == InsertRecord(Page, recPtr, Len(recPtr))
         IN  /\ r.rid = [pageNo |-> pid, slotNo |-> numOfSlots]
             /\ GetRecord(Page', r.rid) =
                  [status |-> "OK", length |-> Len(recPtr), bytes |-> recPtr]]_vars

\* C6 witness: a record of the greatest length has just been inserted behind
\* other slots, one of them deleted, and GetRecord returns it.
C6_Witness ==
  /\ call = CallRecord("InsertRecord", "OK")
  /\ numOfSlots >= 3
  /\ deleted # {}
  /\ GetRecord(Page, Rid(numOfSlots - 1)).status = "OK"
  /\ GetRecord(Page, Rid(numOfSlots - 1)).length = MaxLen

\* C7: FirstRecord and then NextRecord on the RecordID returned last return
\* the slots that are not deleted, in increasing order, each once, and then
\* DONE; NextRecord on a RecordID of another page returns DONE.
C7_ScanOrder ==
  /\ Scan(Page).done
  /\ Scan(Page).seq = Ascending(LiveSlots(Page))
  /\ \A k \in SlotIdx :
       NextRecord(Page, [pageNo |-> ForeignPage, slotNo |-> k]).status = "DONE"

\* C7 witness: the scan has to step over a deleted slot between two live ones.
C7_Witness ==
  /\ numOfSlots >= 3
  /\ slots[0].offset # -1
  /\ slots[1].offset = -1
  /\ slots[2].offset # -1
  /\ Scan(Page).seq[2] = 2

\* C8 (as claimed): DeleteRecord fails and changes nothing when rid names
\* another page, a slot outside [0, numOfSlots) or a deleted slot.
C8_DeleteRefusesInvalid ==
  [][\A rid \in RecordIDs :
       (call'.op = "DeleteRecord" /\ ~ValidRid(Page, rid) /\ DeleteRecordCall(rid)) =>
         /\ call'.status = "FAIL"
         /\ Page' = Page]_vars

\* C9 (as claimed): GetRecord and ReturnRecord return OK exactly for the valid
\* RecordIDs, FAIL otherwise, and on success the same length and bytes.
C9_ReadsValidOnly ==
  \A rid \in RecordIDs :
    LET g == GetRecord(Page, rid)
        r == ReturnRecord(Page, rid)
    IN  /\ g.status = (IF ValidRid(Page, rid) THEN "OK" ELSE "FAIL")
        /\ r.status = g.status
        /\ g.status = "OK" =>
             /\ r.length = g.length
             /\ BytesAt(data, r.recPtr, r.length) = g.bytes

\* C10: InsertRecord with length > freeSpace returns DONE and leaves the page
\* as it is; with length <= freeSpace it succeeds.
C10_InsertSpaceCheck ==
  [][\A recPtr \in Records :
       (call'.op = "InsertRecord" /\ InsertRecordCall(recPtr)) =>
         IF Len(recPtr) > freeSpace
           THEN call'.status = "DONE" /\ Page' = Page
           ELSE call'.status = "OK" /\ numOfSlots' = numOfSlots + 1]_vars

\* C10 witness: an insert has just been refused on a page that holds records
\* and has some, but too little, free space.
C10_Witness ==
  /\ call = CallRecord("InsertRecord", "DONE")
  /\ numOfSlots >= 1
  /\ freeSpace >= 1

\* C11: a successful InsertRecord of a record of the given length decreases
\* AvailableSpace() by length + sizeof(Slot), increases fillPtr by length and
\* numOfSlots by 1, and stores the record at data offset
\* HEAPPAGE_DATA_SIZE - (old fillPtr + length), which the new slot names.
C11_InsertAccounting ==
  [][\A recPtr \in Records :
       (call' = CallRecord("InsertRecord", "OK") /\ InsertRecordCall(recPtr)) =>
         LET length == Len(recPtr)
             offset == HEAPPAGE_DATA_SIZE - (fillPtr + length)
         IN  /\ AvailableSpace(Page') = AvailableSpace(Page) - (length + SlotSize)
             /\ fillPtr' = fillPtr + length
             /\ numOfSlots' = numOfSlots + 1
             /\ slots'[numOfSlots] = [offset |-> offset, length |-> length]
             /\ BytesAt(data', offset, length) = recPtr]_vars

\* C11 witness: a record of the greatest length has just been inserted below
\* a record that is still there, after a delete.
C11_Witness ==
  /\ call = CallRecord("InsertRecord", "OK")
  /\ "DeleteRecord" \in kinds
  /\ "DeleteRecordOutOfRange" \notin kinds
  /\ slots[numOfSlots - 1].length = MaxLen
  /\ fillPtr > MaxLen

\* C12: a successful DeleteRecord(rid) increases AvailableSpace() by the
\* length of the deleted record and by nothing for its slot, decreases fillPtr
\* by that length and leaves numOfSlots unchanged; the deleted record's length
\* is the one GetRecord(rid) gave before the call.
C12_DeleteAccounting ==
  [][\A rid \in RecordIDs :
       (call' = CallRecord("DeleteRecord", "OK") /\ DeleteRecordCall(rid)) =>
         LET rlength == slots[rid.slotNo].length
         IN  /\ ValidRid(Page, rid) => rlength = GetRecord(Page, rid).length
             /\ AvailableSpace(Page') = AvailableSpace(Page) + rlength
             /\ fillPtr' = fillPtr - rlength
             /\ numOfSlots' = numOfSlots]_vars

\* C12 witness: a record of the greatest length has just been deleted from a
\* page that keeps another record.
C12_Witness ==
  /\ call = CallRecord("DeleteRecord", "OK")
  /\ kinds = {"InsertRecord", "DeleteRecord"}
  /\ \E k \in deleted : slots[k].offset = -1 /\ slots[k].length = MaxLen
  /\ fillPtr >= 1
  /\ numOfSlots >= 2

\* C13: in every reachable state IsEmpty() is true if and only if
\* GetNumOfRecords() = 0.
C13_EmptyIffNoRecords ==
  IsEmpty(Page) <=> (GetNumOfRecords(Page) = 0)

\* C13 witness: the directory has several slots, all of them deleted by
\* DeleteRecord, and IsEmpty() is true.
C13_Witness ==
  /\ numOfSlots >= 2
  /\ deleted = 0 .. (numOfSlots - 1)
  /\ LiveSlots(Page) = {}
  /\ IsEmpty(Page)

\* C14: between two CompactSlotDir/Init calls the slot numbers returned by
\* successful inserts are strictly increasing, and DeleteRecord leaves every
\* surviving record under its slot index.  Every insert returns numOfSlots,
\* which is above every slot number in use or deleted, and raises it by one;
\* no delete lowers numOfSlots; a delete keeps every other live slot live at
\* its index with its length, its offset moved by the shift only.
C14_SlotNumbersStable ==
  [][/\ \A recPtr \in Records :
          (call' = CallRecord("InsertRecord", "OK") /\ InsertRecordCall(recPtr)) =>
            LET r == InsertRecord(Page, recPtr, Len(recPtr))
            IN  /\ r.rid.slotNo = numOfSlots
                /\ \A k \in deleted \cup LiveSlots(Page) : k < r.rid.slotNo
                /\ numOfSlots' = r.rid.slotNo + 1
     /\ \A rid \in RecordIDs :
          (call' = CallRecord("DeleteRecord", "OK") /\ DeleteRecordCall(rid)) =>
            /\ numOfSlots' = numOfSlots
            /\ \A k \in LiveSlots(Page) \ {rid.slotNo} :
                 /\ k \in LiveSlots(Page')
                 /\ slots'[k].length = slots[k].length
                 /\ slots'[k].offset =
                      slots[k].offset +
                        (IF k > rid.slotNo THEN slots[rid.slotNo].length ELSE 0)]_vars

\* C14 witness: slot 0 was deleted, its neighbour survived under index 1, and
\* the insert made just now got the new number 2.
C14_Witness ==
  /\ call = CallRecord("InsertRecord", "OK")
  /\ kinds = {"InsertRecord", "DeleteRecord"}
  /\ deleted = {0}
  /\ LiveSlots(Page) = {1, 2}
  /\ numOfSlots = 3

\* The bytes of data[] that the slot k of page p names.
SlotRange(p, k) ==
  {b \in Window : p.slots[k].offset <= b /\ b < p.slots[k].offset + p.slots[k].length}

\* C15 (as claimed): in every state reached from Init by InsertRecord and
\* DeleteRecord calls on slots of the directory, the byte ranges
\* [offset, offset + length) of the slots that are not deleted are pairwise
\* disjoint and together are [HEAPPAGE_DATA_SIZE - fillPtr, HEAPPAGE_DATA_SIZE).
C15_DataTiling ==
  kinds \subseteq {"InsertRecord", "DeleteRecord"} =>
    /\ \A j, k \in LiveSlots(Page) :
         j # k => SlotRange(Page, j) \cap SlotRange(Page, k) = {}
    /\ UNION {SlotRange(Page, k) : k \in LiveSlots(Page)} =
         (HEAPPAGE_DATA_SIZE - fillPtr) .. (HEAPPAGE_DATA_SIZE - 1)

\* C16 (as claimed): the slot directory and the data region never overlap: in
\* every reachable state freeSpace >= 0, that is
\* fillPtr + numOfSlots * sizeof(Slot) <= HEAPPAGE_DATA_SIZE.
C16_DirectoryClearOfData ==
  /\ freeSpace >= 0
  /\ fillPtr + numOfSlots * SlotSize <= HEAPPAGE_DATA_SIZE

\* C17 (as claimed): in the runs of InsertRecord, DeleteRecord and
\* CompactSlotDir calls with valid arguments, a successful InsertRecord leaves
\* the offset, the length and the bytes of every record that was live before
\* it unchanged: the range it writes, [HEAPPAGE_DATA_SIZE - new fillPtr,
\* HEAPPAGE_DATA_SIZE - old fillPtr), overlaps the range of no live slot.
\* Stated for the pages on which no delete has brought a deleted slot back.
C17_InsertKeepsLiveRecords ==
  [][(call' = CallRecord("InsertRecord", "OK") /\ "DeleteRecordRevives" \notin kinds) =>
       \A k \in LiveSlots(Page) :
         /\ slots'[k] = slots[k]
         /\ GetRecord(Page', Rid(k)) = GetRecord(Page, Rid(k))
         /\ SlotRange(Page, k) \cap
              ((HEAPPAGE_DATA_SIZE - fillPtr') .. (HEAPPAGE_DATA_SIZE - fillPtr - 1)) = {}]_vars

\* The slots of the directory of page p, as a function on [0, numOfSlots).
Directory(p) == [k \in 0 .. (p.numOfSlots - 1) |-> p.slots[k]]

\* C18 (as claimed): CompactSlotDir is idempotent: in every reachable state a
\* second CompactSlotDir() leaves numOfSlots, freeSpace and the slot directory
\* as the first one left them, and on a page with no deleted slot
\* CompactSlotDir() changes nothing.
C18_CompactIdempotent ==
  LET once  == CompactSlotDir(Page)
      twice == CompactSlotDir(once)
  IN  /\ twice.numOfSlots = once.numOfSlots
      /\ twice.freeSpace = once.freeSpace
      /\ Directory(twice) = Directory(once)
      /\ LiveSlots(Page) = 0 .. (numOfSlots - 1) => once = Page

\* C19 (as claimed): CompactSlotDir() reads and writes no slot index outside
\* [0, numOfSlots) of the directory it is called on, also when numOfSlots = 0
\* and when every slot is deleted, and in these two cases it ends with
\* numOfSlots = 0.
C19_CompactStaysInDirectory ==
  /\ CompactSlotDirTouches(Page) \subseteq 0 .. (numOfSlots - 1)
  /\ LiveSlots(Page) = {} => CompactSlotDir(Page).numOfSlots = 0

====
